---- MODULE Spec2Model ----
(***************************************************************************)
(* Model of the Fashion-Scraper pipeline: src/webscraper.py (heuristic     *)
(* extraction with Playwright, enrichment merge with Gemini) and           *)
(* src/server.py (the /scrape endpoint and its output schema guard).       *)
(*                                                                         *)
(* Python values are tagged records [t |-> type, v |-> payload]; Python    *)
(* strings are TLA+ strings, taken apart with Len, SubSeq and \o.          *)
(***************************************************************************)
EXTENDS Integers, Sequences, FiniteSets, TLC

VARIABLES
    pc,          \* position of the request (or of the function under check)
    url,         \* the product_url of the request
    page,        \* what the browser shows for url: markup and DOM snapshot
    playwright,  \* "stopped" | "running": the sync_playwright() driver
    browser,     \* "none" | "open" | "closed": the Chromium launched for the request
    fields,      \* extract_raw_product_data: its locals title, price, desc, sizes
    brand,       \* result of detect_brand
    candidates,  \* extract_images_from_page: the sorted (score, area, src) list
    images,      \* result of extract_images_from_page
    raw,         \* RawProductData
    response,    \* the text the enrichment model returned
    genCalls,    \* number of generate_content calls made for the request
    cleaned,     \* result of clean_product_data
    reply        \* what the caller of /scrape receives

vars == <<pc, url, page, playwright, browser, fields, brand, candidates, images,
          raw, response, genCalls, cleaned, reply>>

(***************************************************************************)
(* Python values                                                           *)
(***************************************************************************)
Null == [t |-> "null", v |-> ""]
Str(s) == [t |-> "str", v |-> s]
Num(n) == [t |-> "num", v |-> n]
List(q) == [t |-> "list", v |-> q]
Dict(f) == [t |-> "dict", v |-> f]
\* an exception propagating out of a call
Raised == [t |-> "raised", v |-> ""]
\* a variable not yet assigned / not used by the specification at hand
Unset == [t |-> "unset", v |-> ""]

\* bool(x)
Truthy(x) ==
    CASE x.t = "null" -> FALSE
      [] x.t = "str" -> x.v # ""
      [] x.t = "num" -> x.v # 0
      [] x.t = "list" -> Len(x.v) > 0
      [] x.t = "dict" -> DOMAIN x.v # {}
      [] OTHER -> FALSE

\* x or y
Or(x, y) == IF Truthy(x) THEN x ELSE y

\* d.get(k)
DictGet(d, k) == IF k \in DOMAIN d THEN d[k] ELSE Null

\* d[k] = x
DictSet(d, k, x) == [j \in (DOMAIN d) \cup {k} |-> IF j = k THEN x ELSE d[j]]

(***************************************************************************)
(* Python str methods                                                      *)
(***************************************************************************)
UpperAlpha == "ABCDEFGHIJKLMNOPQRSTUVWXYZ"
LowerAlpha == "abcdefghijklmnopqrstuvwxyz"
Digits == "0123456789"
Whitespace == {" ", "\t", "\n", "\r"}

CharAt(s, i) == SubSeq(s, i, i)
Chars(s) == {CharAt(s, i) : i \in 1..Len(s)}

UpperChars == Chars(UpperAlpha)
LowerChars == Chars(LowerAlpha)
DigitChars == Chars(Digits)
\* c.lower() and c.upper() of the letters
ToLower == [c \in UpperChars |-> CharAt(LowerAlpha, CHOOSE i \in 1..26 : CharAt(UpperAlpha, i) = c)]
ToUpper == [c \in LowerChars |-> CharAt(UpperAlpha, CHOOSE i \in 1..26 : CharAt(LowerAlpha, i) = c)]

IsUpperChar(c) == c \in UpperChars
IsLowerChar(c) == c \in LowerChars
IsDigitChar(c) == c \in DigitChars
LowerChar(c) == IF IsUpperChar(c) THEN ToLower[c] ELSE c
UpperChar(c) == IF IsLowerChar(c) THEN ToUpper[c] ELSE c

RECURSIVE Lower(_)
\* s.lower()
Lower(s) == IF s = "" THEN "" ELSE LowerChar(CharAt(s, 1)) \o Lower(SubSeq(s, 2, Len(s)))

RECURSIVE Upper(_)
\* s.upper()
Upper(s) == IF s = "" THEN "" ELSE UpperChar(CharAt(s, 1)) \o Upper(SubSeq(s, 2, Len(s)))

\* s.startswith(p), s.endswith(p), p in s
StartsWith(s, p) == Len(p) <= Len(s) /\ SubSeq(s, 1, Len(p)) = p
EndsWith(s, p) == Len(p) <= Len(s) /\ SubSeq(s, Len(s) - Len(p) + 1, Len(s)) = p
Contains(s, p) == \E i \in 1..(Len(s) - Len(p) + 1) : SubSeq(s, i, i + Len(p) - 1) = p

\* s.find(p) + 1: the position of the first occurrence, 0 when there is none
Find(s, p) ==
    IF Contains(s, p)
    THEN CHOOSE i \in 1..(Len(s) - Len(p) + 1) :
            /\ SubSeq(s, i, i + Len(p) - 1) = p
            /\ \A j \in 1..(i - 1) : SubSeq(s, j, j + Len(p) - 1) # p
    ELSE 0

RECURSIVE LStrip(_)
LStrip(s) == IF s # "" /\ CharAt(s, 1) \in Whitespace THEN LStrip(SubSeq(s, 2, Len(s))) ELSE s
RECURSIVE RStrip(_)
RStrip(s) == IF s # "" /\ CharAt(s, Len(s)) \in Whitespace THEN RStrip(SubSeq(s, 1, Len(s) - 1)) ELSE s
\* s.strip()
Strip(s) == RStrip(LStrip(s))

RECURSIVE Replace(_, _, _)
\* s.replace(old, new), old non-empty: left to right, non-overlapping
Replace(s, old, new) ==
    LET i == Find(s, old)
    IN IF i = 0 THEN s
       ELSE SubSeq(s, 1, i - 1) \o new \o Replace(SubSeq(s, i + Len(old), Len(s)), old, new)

\* s.split(sep)[0]
SplitFirst(s, sep) == LET i == Find(s, sep) IN IF i = 0 THEN s ELSE SubSeq(s, 1, i - 1)

RECURSIVE SplitLast(_, _)
\* s.split(sep)[-1]
SplitLast(s, sep) ==
    LET i == Find(s, sep) IN IF i = 0 THEN s ELSE SplitLast(SubSeq(s, i + Len(sep), Len(s)), sep)

RECURSIVE TitleFrom(_, _)
TitleFrom(s, prevCased) ==
    IF s = "" THEN ""
    ELSE LET c == CharAt(s, 1)
             cased == IsUpperChar(c) \/ IsLowerChar(c)
         IN (IF prevCased THEN LowerChar(c) ELSE UpperChar(c))
                \o TitleFrom(SubSeq(s, 2, Len(s)), cased)
\* s.title()
Title(s) == TitleFrom(s, FALSE)

(***************************************************************************)
(* urllib.parse.urlparse(u).hostname                                       *)
(***************************************************************************)
SchemeChars == UpperChars \cup LowerChars \cup DigitChars \cup {"+", "-", "."}

\* what follows "scheme:" (the whole string when no valid scheme leads it)
AfterScheme(u) ==
    LET i == Find(u, ":")
    IN IF /\ i > 1
          /\ IsUpperChar(CharAt(u, 1)) \/ IsLowerChar(CharAt(u, 1))
          /\ \A j \in 1..(i - 1) : CharAt(u, j) \in SchemeChars
       THEN SubSeq(u, i + 1, Len(u))
       ELSE u

\* the position where the network location ends
NetlocEnd(s) ==
    IF \E i \in 1..Len(s) : CharAt(s, i) \in {"/", "?", "#"}
    THEN (CHOOSE i \in 1..Len(s) :
            /\ CharAt(s, i) \in {"/", "?", "#"}
            /\ \A j \in 1..(i - 1) : CharAt(s, j) \notin {"/", "?", "#"}) - 1
    ELSE Len(s)

Netloc(u) ==
    LET rest == AfterScheme(u)
    IN IF StartsWith(rest, "//")
       THEN LET r == SubSeq(rest, 3, Len(rest)) IN SubSeq(r, 1, NetlocEnd(r))
       ELSE ""

\* urlparse(u).hostname or "": user info and port dropped, lowercased
Hostname(u) == Lower(SplitFirst(SplitLast(Netloc(u), "@"), ":"))

(***************************************************************************)
(* extract_brand_from_jsonld, detect_brand                                 *)
(*                                                                         *)
(* The markup is held by what the code reads from it.  html.ld is the      *)
(* sequence of the JSON-LD script blocks the regular expression finds,     *)
(* each the Python value its text denotes, or Garbage when json.loads      *)
(* fails on it.                                                            *)
(***************************************************************************)
Garbage == [t |-> "garbage", v |-> ""]
NotFound == [found |-> FALSE, value |-> Null]
Found(x) == [found |-> TRUE, value |-> x]

\* brand.get("name") if isinstance(brand, dict) else brand
BrandName(b) == IF b.t = "dict" THEN DictGet(b.v, "name") ELSE b

RECURSIVE ItemsBrandFrom(_, _)
\* for item in data: the first dict item with a "brand" key decides
ItemsBrandFrom(items, j) ==
    IF j > Len(items) THEN NotFound
    ELSE IF items[j].t = "dict" /\ "brand" \in DOMAIN items[j].v
         THEN Found(BrandName(items[j].v["brand"]))
         ELSE ItemsBrandFrom(items, j + 1)

\* what one block returns, if it returns
BlockBrand(data) ==
    IF data.t = "dict"
    THEN IF Truthy(DictGet(data.v, "brand"))
         THEN Found(BrandName(DictGet(data.v, "brand")))
         ELSE NotFound
    ELSE IF data.t = "list" THEN ItemsBrandFrom(data.v, 1)
    ELSE NotFound

RECURSIVE JsonldBrandFrom(_, _)
\* for block in blocks: ... ; return None
JsonldBrandFrom(blocks, i) ==
    IF i > Len(blocks) THEN Null
    ELSE LET r == BlockBrand(blocks[i])
         IN IF r.found THEN r.value ELSE JsonldBrandFrom(blocks, i + 1)

ExtractBrandFromJsonld(html) == JsonldBrandFrom(html.ld, 1)

\* the brand taken from the host name:
\* leading "www." dropped, the first dot-delimited segment, the geo / tld
\* fragments cut out of it, stripped and title-cased
DomainBrand(u) ==
    LET domain == Replace(Hostname(u), "www.", "")
        first == SplitFirst(domain, ".")
        cut == Replace(Replace(Replace(Replace(Replace(first,
                    "uk", ""), "us", ""), "eu", ""), "co", ""), "shop", "")
    IN Str(Title(Strip(cut)))

\* detect_brand(url, html): .strip() of anything but a string raises
DetectBrand(u, html) ==
    LET b == ExtractBrandFromJsonld(html)
    IN IF Truthy(b)
       THEN IF b.t = "str" THEN Str(Strip(b.v)) ELSE Raised
       ELSE DomainBrand(u)

(***************************************************************************)
(* extract_price_from_scripts                                              *)
(*                                                                         *)
(* html.price_matches holds, for each of the regular expressions of the    *)
(* pattern list in list order, group 1 of its first match in the markup,   *)
(* or Null when it does not match.                                         *)
(***************************************************************************)
RECURSIVE DigitsOf(_)
DigitsOf(n) == IF n < 10 THEN CharAt(Digits, n + 1) ELSE DigitsOf(n \div 10) \o CharAt(Digits, (n % 10) + 1)
\* str(x) of a string or a natural number
PyStr(x) == IF x.t = "str" THEN x.v ELSE IF x.t = "num" THEN DigitsOf(x.v) ELSE "None"

\* the first entry of q, from place i on, that is not None
FirstPresentFrom(q, i) ==
    IF \E j \in i..Len(q) : q[j] # Null
    THEN q[CHOOSE j \in i..Len(q) : q[j] # Null /\ \A k \in i..(j - 1) : q[k] = Null]
    ELSE Null

\* read_price(obj)
ReadPrice(obj) ==
    IF obj.t # "dict" THEN Null
    ELSE LET offers == DictGet(obj.v, "offers")
         IN IF offers.t = "dict" /\ "price" \in DOMAIN offers.v
            THEN Str(PyStr(offers.v["price"]))
            ELSE Null

\* the price one JSON-LD block gives: of the dict itself, or of the first item
\* of a list whose price is not empty
BlockPrice(data) ==
    IF data.t = "dict" THEN ReadPrice(data)
    ELSE IF data.t = "list"
         THEN LET prices == [j \in 1..Len(data.v) |-> ReadPrice(data.v[j])]
              IN IF \E j \in 1..Len(prices) : Truthy(prices[j])
                 THEN prices[CHOOSE j \in 1..Len(prices) :
                        Truthy(prices[j]) /\ \A k \in 1..(j - 1) : ~Truthy(prices[k])]
                 ELSE Null
         ELSE Null

RECURSIVE FirstTruthyFrom(_, _)
\* the first truthy entry of q from place i on
FirstTruthyFrom(q, i) ==
    IF i > Len(q) THEN Null
    ELSE IF Truthy(q[i]) THEN q[i] ELSE FirstTruthyFrom(q, i + 1)

\* extract_price_from_scripts(html)
ExtractPriceFromScripts(html) ==
    LET m == FirstPresentFrom(html.price_matches, 1)
    IN IF m # Null THEN m
       ELSE FirstTruthyFrom([i \in 1..Len(html.ld) |-> BlockPrice(html.ld[i])], 1)

(***************************************************************************)
(* is_valid_size_token and the collection of sizes                         *)
(***************************************************************************)
VALID_SIZE_WORDS ==
    { "XXXS", "XXS", "XS", "S", "M", "L", "XL", "XXL", "XXXL",
      "3XL", "4XL", "5XL",
      "ONE SIZE", "ONESIZE", "OS",
      "S/M", "M/L", "L/XL" }

\* int(t) of a string of digits
RECURSIVE IntOf(_)
IntOf(t) ==
    IF t = "" THEN 0
    ELSE 10 * IntOf(SubSeq(t, 1, Len(t) - 1))
         + ((CHOOSE i \in 1..10 : CharAt(Digits, i) = CharAt(t, Len(t))) - 1)

IsValidSizeToken(token) ==
    LET t == Upper(Strip(token))
    IN /\ t # ""
       /\ \/ t \in VALID_SIZE_WORDS
          \/ Replace(t, " ", "") \in VALID_SIZE_WORDS
          \/ /\ Len(t) = 2
             /\ IsDigitChar(CharAt(t, 1)) /\ IsDigitChar(CharAt(t, 2))
             /\ 20 <= IntOf(t) /\ IntOf(t) <= 60

\* the printable ASCII characters in code point order (the backquote left out)
AsciiOrder ==
    " !\"#$%&'()*+,-./0123456789:;<=>?@ABCDEFGHIJKLMNOPQRSTUVWXYZ[\\]^_abcdefghijklmnopqrstuvwxyz{|}~"
CharRank(c) == CHOOSE i \in 1..Len(AsciiOrder) : CharAt(AsciiOrder, i) = c

RECURSIVE StrLess(_, _)
\* a < b for Python strings
StrLess(a, b) ==
    IF b = "" THEN FALSE
    ELSE IF a = "" THEN TRUE
    ELSE IF CharAt(a, 1) = CharAt(b, 1) THEN StrLess(SubSeq(a, 2, Len(a)), SubSeq(b, 2, Len(b)))
    ELSE CharRank(CharAt(a, 1)) < CharRank(CharAt(b, 1))

RECURSIVE SortedStrings(_)
\* sorted(list(S)) of a set of strings
SortedStrings(S) ==
    IF S = {} THEN <<>>
    ELSE LET m == CHOOSE x \in S : \A y \in S \ {x} : StrLess(x, y)
         IN <<m>> \o SortedStrings(S \ {m})

\* every text and attribute value the four size loops read, None left out
SizeTokens(dom) == {dom.size_texts[i] : i \in 1..Len(dom.size_texts)}

\* the sizes added as they were read, stripped but not uppercased
CollectSizesAsRead(dom) ==
    LET sizes == {Strip(t) : t \in {x \in SizeTokens(dom) : IsValidSizeToken(x)}}
        sorted == SortedStrings(sizes)
    IN List([i \in 1..Len(sorted) |-> Str(sorted[i])])

\* sorted(list(sizes))
CollectSizes(dom) ==
    LET sizes == {Upper(Strip(t)) : t \in {x \in SizeTokens(dom) : IsValidSizeToken(x)}}
        sorted == SortedStrings(sizes)
    IN List([i \in 1..Len(sorted) |-> Str(sorted[i])])

\* the stripped text of the first selector of the list that matches an element
FirstElementText(els) ==
    LET el == FirstPresentFrom(els, 1)
    IN IF el = Null THEN Null ELSE Str(Strip(el.v))

(***************************************************************************)
(* extract_images_from_page                                                *)
(*                                                                         *)
(* img_info is what page.evaluate returns: one record per img, source and  *)
(* background-image element, in document order, with the fields src,       *)
(* width, height, alt, className, inPicture and top.                       *)
(***************************************************************************)
IMAGE_EXTS == {".jpg", ".jpeg", ".png", ".webp", ".avif", ".gif"}

IMAGE_BLOCKLIST ==
    { "visa", "mastercard", "maestro", "amex", "americanexpress",
      "paypal", "klarna", "afterpay", "clearpay", "trustpilot",
      "applepay", "googlepay", "payment", "secure",
      "facebook", "instagram", "youtube", "tiktok", "twitter", "x-logo",
      "logo", "sprite", "icon", "favicon", "placeholder", "noimage",
      "search", "menu", "hamburger", "cart", "basket", "bag", "close",
      "arrow", "chevron", "caret", "scroll", "slider",
      "banner", "promo", "offer", "ads", "advert",
      "footer", "header",
      "flag", "country-" }

PRODUCT_KEYWORDS ==
    { "product", "pdp", "gallery", "image", "main", "hero",
      "shoe", "trainer", "sneaker", "boot",
      "jacket", "coat", "hoodie", "tee", "t-shirt", "shirt",
      "dress", "skirt", "trouser", "shorts", "jeans", "pant",
      "bag", "cap", "hat", "backpack" }

\* at most this many URLs with a positive score are returned
PositiveCap == 10
\* at most this many URLs are returned when no score is positive
FallbackCap == 5

IsTokenChar(c) == IsLowerChar(c) \/ IsDigitChar(c)

RECURSIVE RunLen(_)
\* the length of the run of [a-z0-9] that s starts with
RunLen(s) == IF s = "" \/ ~IsTokenChar(CharAt(s, 1)) THEN 0 ELSE 1 + RunLen(SubSeq(s, 2, Len(s)))

RECURSIVE Tokens(_)
\* set(re.findall(r"[a-z0-9]+", s))
Tokens(s) ==
    IF s = "" THEN {}
    ELSE LET n == RunLen(s)
         IN IF n = 0 THEN Tokens(SubSeq(s, 2, Len(s)))
            ELSE {SubSeq(s, 1, n)} \cup Tokens(SubSeq(s, n + 1, Len(s)))

SlugTokens(u) == Tokens(Lower(SplitLast(SplitFirst(u, "?"), "/")))
TitleTokens(title) == Tokens(Lower(title))

\* protocol-relative URLs are normalised
NormaliseSrc(src) == IF StartsWith(src, "//") THEN "https:" \o src ELSE src

\* IsBlocklisted tested on the URL as written, not on its lowercase form
IsBlocklistedCaseSensitive(src, src_l) == \E b \in IMAGE_BLOCKLIST : Contains(src, b)

\* any(b in src_l for b in IMAGE_BLOCKLIST)
IsBlocklisted(src, src_l) == \E b \in IMAGE_BLOCKLIST : Contains(src_l, b)

\* a URL with no image extension that looks like a stylesheet, script or vector
IsNonImageAsset(src_l) ==
    /\ ~\E ext \in IMAGE_EXTS : EndsWith(src_l, ext)
    /\ ~\E ext \in IMAGE_EXTS : Contains(src_l, ext)
    /\ \E ext \in {".css", ".js", ".json", ".svg"} : Contains(src_l, ext)

\* the filters a URL passes on its own (src already normalised)
PassesFilters(src) ==
    /\ src # ""
    /\ StartsWith(src, "http")
    /\ ~IsBlocklisted(src, Lower(src))
    /\ ~IsNonImageAsset(Lower(src))

HasKeyword(text) == \E k \in PRODUCT_KEYWORDS : Contains(text, k)

AreaScore(area, alt, cls) ==
    IF area >= 800 * 800 THEN 8
    ELSE IF area >= 600 * 600 THEN 6
    ELSE IF area >= 400 * 400 THEN 4
    ELSE IF area >= 200 * 200 THEN 2
    ELSE IF HasKeyword(alt) \/ HasKeyword(cls) THEN 1
    ELSE 0

\* the score of one element whose URL passed the filters
Score(info, src, slug_tokens, title_tokens) ==
    LET area == info.width * info.height
        alt == Lower(info.alt)
        cls == Lower(info.className)
        name_tokens == Tokens(Lower(src))
    IN AreaScore(area, alt, cls)
       + (IF info.inPicture THEN 3 ELSE 0)
       + (IF HasKeyword(alt) THEN 2 ELSE 0)
       + (IF HasKeyword(cls) THEN 2 ELSE 0)
       + (IF -200 <= info.top /\ info.top <= 1600 THEN 1 ELSE 0)
       + (IF Cardinality(name_tokens \cap slug_tokens) >= 2 THEN 2 ELSE 0)
       + (IF Cardinality(name_tokens \cap title_tokens) >= 1 THEN 1 ELSE 0)

RECURSIVE CandidatesUpTo(_, _, _, _)
\* the loop over img_info after its first n elements: the URLs seen and the
\* (score, area, src) candidates, in document order
CandidatesUpTo(img_info, n, slug_tokens, title_tokens) ==
    IF n = 0 THEN [seen |-> {}, list |-> <<>>]
    ELSE LET prev == CandidatesUpTo(img_info, n - 1, slug_tokens, title_tokens)
             info == img_info[n]
             src == NormaliseSrc(info.src)
         IN IF ~PassesFilters(src) \/ src \in prev.seen THEN prev
            ELSE [ seen |-> prev.seen \cup {src},
                   list |-> Append(prev.list,
                              [ score |-> Score(info, src, slug_tokens, title_tokens),
                                area  |-> info.width * info.height,
                                src   |-> src ]) ]

\* the sort key (score, area) of a is at least that of b
KeyGeq(a, b) == a.score > b.score \/ (a.score = b.score /\ a.area >= b.area)

\* x put behind every element whose key is at least its own
InsertByKey(q, x) ==
    LET k == Cardinality({i \in 1..Len(q) : KeyGeq(q[i], x)})
    IN SubSeq(q, 1, k) \o <<x>> \o SubSeq(q, k + 1, Len(q))

RECURSIVE SortedUpTo(_, _)
SortedUpTo(c, n) == IF n = 0 THEN <<>> ELSE InsertByKey(SortedUpTo(c, n - 1), c[n])

\* the candidates ordered by score alone
RECURSIVE SortedByScoreUpTo(_, _)
SortedByScoreUpTo(c, n) ==
    IF n = 0 THEN <<>>
    ELSE LET q == SortedByScoreUpTo(c, n - 1)
             k == Cardinality({i \in 1..Len(q) : q[i].score >= c[n].score})
         IN SubSeq(q, 1, k) \o <<c[n]>> \o SubSeq(q, k + 1, Len(q))
SortByScoreOnly(c) == SortedByScoreUpTo(c, Len(c))

\* candidates.sort(key=lambda x: (x[0], x[1]), reverse=True): a stable sort,
\* so candidates with equal keys keep their document order
SortCandidates(c) == SortedUpTo(c, Len(c))

Srcs(c) == [i \in 1..Len(c) |-> c[i].src]
Take(q, n) == SubSeq(q, 1, IF Len(q) < n THEN Len(q) ELSE n)

\* the sorted candidates of a page
RankedCandidates(img_info, u, title) ==
    SortCandidates(CandidatesUpTo(img_info, Len(img_info), SlugTokens(u), TitleTokens(title)).list)

\* what extract_images_from_page returns for its sorted candidates
PickImages(sorted) ==
    LET positive == SelectSeq(sorted, LAMBDA c : c.score > 0)
    IN IF Len(sorted) = 0 THEN <<>>
       ELSE IF Len(positive) > 0 THEN Take(Srcs(positive), PositiveCap)
       ELSE Take(Srcs(sorted), FallbackCap)

(***************************************************************************)
(* clean_product_data: the enrichment merge                                *)
(***************************************************************************)
ALLOWED_STYLE_TAGS ==
    << "#streetwear", "#athleisure", "#vintageStreet", "#techwear", "#minimalist",
       "#loudGraphic", "#hypebeast", "#y2k", "#skater" >>

\* the base product JSON built from the scraped fields, embedded in the prompt
Product(r) ==
    [ product_name    |-> Or(r.raw_title, Str("")),
      brand           |-> Or(r.raw_brand, Str("")),
      description     |-> Or(r.raw_description, Str("")),
      price           |-> Or(r.raw_price, Str("")),
      currency        |-> Str(""),
      category        |-> Str(""),
      gender_target   |-> Str(""),
      style_tags      |-> List(<<>>),
      image_url       |-> IF Truthy(r.raw_images) THEN r.raw_images.v[1] ELSE Str(""),
      sizes_available |-> Or(r.raw_sizes, List(<<>>)),
      product_url     |-> Or(r.url, Str("")) ]

\* The text of a response is what precedes the body, the body, and what follows
\* it; the body is the Python value it denotes, or Garbage when it denotes none.
ParseError == [t |-> "error", v |-> ""]

\* the three backquotes of a Markdown code fence, written ~~~ here (a backquote
\* cannot stand in a TLA+ string)
Fence == "~~~"

\* resp.text.strip(), the fence markers replaced by "", .strip(): on the text
\* around the body
StripFences(s) == Strip(Replace(Replace(Strip(s), Fence \o "json", ""), Fence, ""))

\* json.loads of the stripped text: the body's value when nothing but the body is
\* left and the body is JSON
JsonLoads(resp) ==
    IF /\ StripFences(resp.before) = ""
       /\ StripFences(resp.after) = ""
       /\ resp.body # Garbage
    THEN resp.body
    ELSE ParseError

\* if raw.get(...): cleaned[key] = raw[...]
Enforce(c, rawv, key) == IF Truthy(rawv) THEN DictSet(c, key, rawv) ELSE c

\* EnforceGroundTruth with the re-assertion of the price left out
EnforceGroundTruthNoPrice(c, r) ==
    LET c1 == Enforce(c, r.raw_title, "product_name")
        c2 == Enforce(c1, r.raw_brand, "brand")
        c4 == Enforce(c2, r.url, "product_url")
        c5 == IF Truthy(r.raw_images) THEN DictSet(c4, "image_url", r.raw_images.v[1]) ELSE c4
    IN Enforce(c5, r.raw_sizes, "sizes_available")

\* "Hard enforce scraped values (these are ground truth)"
EnforceGroundTruth(c, r) ==
    LET c1 == Enforce(c, r.raw_title, "product_name")
        c2 == Enforce(c1, r.raw_brand, "brand")
        c3 == Enforce(c2, r.raw_price, "price")
        c4 == Enforce(c3, r.url, "product_url")
        c5 == IF Truthy(r.raw_images) THEN DictSet(c4, "image_url", r.raw_images.v[1]) ELSE c4
    IN Enforce(c5, r.raw_sizes, "sizes_available")

\* The currency symbols of a price string. TLC keeps only ASCII strings intact,
\* so the pound sign is written ^ and the euro sign | in every price string here;
\* the dollar sign is itself.
PoundSign == "^"
EuroSign == "|"
DollarSign == "$"

\* the currency taken from the host when the price string carries no symbol
HostCurrency(host) ==
    IF Contains(host, ".co.uk") \/ EndsWith(host, ".uk") THEN "GBP"
    ELSE IF \E tld \in {".de", ".fr", ".es", ".it"} : Contains(host, tld) THEN "EUR"
    ELSE "GBP"

\* the currency inferred from the price string, else from the host
InferCurrency(r) ==
    LET price_str == Or(r.raw_price, Str("")).v
    IN IF Contains(price_str, EuroSign) THEN "EUR"
       ELSE IF Contains(price_str, DollarSign) THEN "USD"
       ELSE IF Contains(price_str, PoundSign) THEN "GBP"
       ELSE HostCurrency(Hostname(Or(r.url, Str("")).v))

\* if not cleaned.get("currency"): ...
ResolveCurrency(c, r) ==
    IF ~Truthy(DictGet(c, "currency"))
    THEN DictSet(c, "currency", Str(InferCurrency(r)))
    ELSE c

InList(q, x) == \E j \in 1..Len(q) : q[j] = x

\* allowed.lower() of every entry of the allowed list
AllowedLower == [i \in 1..Len(ALLOWED_STYLE_TAGS) |-> Lower(ALLOWED_STYLE_TAGS[i])]
AllowedIndices == [i \in 1..Len(ALLOWED_STYLE_TAGS) |-> i]

\* for allowed in ALLOWED_STYLE_TAGS: append allowed when t matches it
\* case-insensitively and it is not in filtered yet (the entries of the allowed
\* list are distinct, so appending one does not change the test for another)
MatchAllowed(filtered, t) ==
    LET tl == Lower(t)
        hits == SelectSeq(AllowedIndices,
                    LAMBDA i : tl = AllowedLower[i]
                               /\ ~InList(filtered, Str(ALLOWED_STYLE_TAGS[i])))
    IN filtered \o [j \in 1..Len(hits) |-> Str(ALLOWED_STYLE_TAGS[hits[j]])]

RECURSIVE FilterTagsUpTo(_, _)
\* filtered after the first n tags: non-strings skipped, the others stripped and
\* matched against the allowed list
FilterTagsUpTo(tags, n) ==
    IF n = 0 THEN <<>>
    ELSE LET filtered == FilterTagsUpTo(tags, n - 1)
         IN IF tags[n].t # "str" THEN filtered
            ELSE MatchAllowed(filtered, Strip(tags[n].v))

\* "Filter style_tags to allowed set": only a list is filtered
FilterStyleTags(c) ==
    LET tags == Or(DictGet(c, "style_tags"), List(<<>>))
    IN IF tags.t = "list"
       THEN DictSet(c, "style_tags", List(FilterTagsUpTo(tags.v, Len(tags.v))))
       ELSE c

\* clean_product_data falling back on the record built from the scraped fields
\* when the text does not parse
CleanProductDataDefaulting(r, resp) ==
    LET parsed == IF JsonLoads(resp) = ParseError THEN Dict(Product(r)) ELSE JsonLoads(resp)
    IN IF parsed.t # "dict" THEN Raised
       ELSE Dict(FilterStyleTags(ResolveCurrency(EnforceGroundTruth(parsed.v, r), r)))

\* clean_product_data(raw) once the model has answered resp: None when the text
\* does not parse; an exception when it parses to something that is no dict
\* (item assignment or .get on it fails); else the merged dict
CleanProductData(r, resp) ==
    LET parsed == JsonLoads(resp)
    IN IF parsed = ParseError THEN Null
       ELSE IF parsed.t # "dict" THEN Raised
       ELSE Dict(FilterStyleTags(ResolveCurrency(EnforceGroundTruth(parsed.v, r), r)))

(***************************************************************************)
(* extract_raw_product_data as steps                                       *)
(*                                                                         *)
(* page is what the browser shows: the markup (html), for each selector of *)
(* the title, price and description lists the inner text of the element it *)
(* matches or Null (title_els, price_els, desc_els), the image signals     *)
(* (img_info) and the texts the size loops read (size_texts).              *)
(***************************************************************************)
NoFields == [title |-> Null, price |-> Null, desc |-> Null, sizes |-> List(<<>>)]

\* with sync_playwright() as p:
EnterWith ==
    /\ pc = "with"
    /\ playwright' = "running"
    /\ pc' = "launch"
    /\ UNCHANGED <<url, page, browser, fields, brand, candidates, images, raw, response,
                   genCalls, cleaned, reply>>

\* browser = p.chromium.launch(headless=False)
Launch ==
    /\ pc = "launch"
    /\ browser' = "open"
    /\ pc' = "new_page"
    /\ UNCHANGED <<url, page, playwright, fields, brand, candidates, images, raw, response,
                   genCalls, cleaned, reply>>

\* page = browser.new_page(...); page.set_extra_http_headers(...)
NewPage ==
    /\ pc = "new_page"
    /\ pc' = "goto"
    /\ UNCHANGED <<url, page, playwright, browser, fields, brand, candidates, images, raw,
                   response, genCalls, cleaned, reply>>

\* page.goto inside try/except, the sleep, the scroll loop inside try/except:
\* a failure of either is swallowed and extraction goes on
GotoAndScroll ==
    /\ pc = "goto"
    /\ pc' = "content"
    /\ UNCHANGED <<url, page, playwright, browser, fields, brand, candidates, images, raw,
                   response, genCalls, cleaned, reply>>

\* html = page.content(); the title loop
ContentAndTitle ==
    /\ pc = "content"
    /\ fields' = [NoFields EXCEPT !.title = FirstElementText(page.title_els)]
    /\ pc' = "brand"
    /\ UNCHANGED <<url, page, playwright, browser, brand, candidates, images, raw, response,
                   genCalls, cleaned, reply>>

\* brand = detect_brand(url, html): an exception of it leaves the with block
BrandStep ==
    /\ pc = "brand"
    /\ brand' = DetectBrand(url, page.html)
    /\ pc' = IF brand' = Raised THEN "unwind" ELSE "price"
    /\ UNCHANGED <<url, page, playwright, browser, fields, candidates, images, raw, response,
                   genCalls, cleaned, reply>>

\* the price loop, then extract_price_from_scripts when it found nothing; the
\* description loop
PriceAndDescription ==
    /\ pc = "price"
    /\ LET el == FirstElementText(page.price_els)
       IN fields' = [fields EXCEPT
                        !.price = IF Truthy(el) THEN el ELSE ExtractPriceFromScripts(page.html),
                        !.desc = FirstElementText(page.desc_els)]
    /\ pc' = "images"
    /\ UNCHANGED <<url, page, playwright, browser, brand, candidates, images, raw, response,
                   genCalls, cleaned, reply>>

\* images = extract_images_from_page(page, url, title or "")
ImagesStep ==
    /\ pc = "images"
    /\ candidates' = RankedCandidates(page.img_info, url, Or(fields.title, Str("")).v)
    /\ images' = PickImages(candidates')
    /\ pc' = "sizes"
    /\ UNCHANGED <<url, page, playwright, browser, fields, brand, raw, response, genCalls,
                   cleaned, reply>>

\* the four size loops
SizesStep ==
    /\ pc = "sizes"
    /\ fields' = [fields EXCEPT !.sizes = CollectSizes(page)]
    /\ pc' = "close"
    /\ UNCHANGED <<url, page, playwright, browser, brand, candidates, images, raw, response,
                   genCalls, cleaned, reply>>

\* browser.close()
CloseBrowser ==
    /\ pc = "close"
    /\ browser' = "closed"
    /\ pc' = "exit"
    /\ UNCHANGED <<url, page, playwright, fields, brand, candidates, images, raw, response,
                   genCalls, cleaned, reply>>

\* the with block left without tearing down what the driver launched
LeaveWithKeepingBrowser == browser

\* Leaving the with block stops the Playwright driver, on the normal path and on
\* an exception alike, and the driver takes the browser it launched down with it.
LeaveWith == IF browser = "open" THEN "closed" ELSE browser

\* the with block is left normally and the raw record is returned
ExitWith ==
    /\ pc = "exit"
    /\ playwright' = "stopped"
    /\ browser' = LeaveWith
    /\ raw' = [ raw_title       |-> fields.title,
                raw_brand       |-> brand,
                raw_price       |-> fields.price,
                raw_description |-> fields.desc,
                raw_images      |-> List([i \in 1..Len(images) |-> Str(images[i])]),
                raw_sizes       |-> fields.sizes,
                url             |-> Str(url) ]
    /\ pc' = "clean"
    /\ UNCHANGED <<url, page, fields, brand, candidates, images, response, genCalls,
                   cleaned, reply>>

\* the places inside the with block where a call into the browser can raise
CanRaise == {"launch", "new_page", "content", "price", "images", "sizes", "close"}

\* a Playwright call raises (launch failure, page closed, browser crashed, ...)
BrowserCallRaises ==
    /\ pc \in CanRaise
    /\ pc' = "unwind"
    /\ UNCHANGED <<url, page, playwright, browser, fields, brand, candidates, images, raw,
                   response, genCalls, cleaned, reply>>

\* the exception leaves the with block, extract_raw_product_data, scrape_product
\* and the endpoint: the caller receives an error
Unwind ==
    /\ pc = "unwind"
    /\ playwright' = "stopped"
    /\ browser' = LeaveWith
    /\ reply' = [status |-> "error", body |-> Null]
    /\ pc' = "done"
    /\ UNCHANGED <<url, page, fields, brand, candidates, images, raw, response, genCalls,
                   cleaned>>

(***************************************************************************)
(* server.py: the /scrape endpoint                                         *)
(***************************************************************************)
VALID_CATEGORY == {"top", "bottom", "outerwear", "footwear", "full_body", "accessory"}
VALID_GENDER == {"masculine", "feminine", "unisex"}

\* x in a set of strings, for x hashable
InStrings(x, S) == x.t = "str" /\ x.v \in S
\* hash(x) raises TypeError
Unhashable(x) == x.t \in {"list", "dict"}

\* the guard with the category left as the model gave it
GuardEnumsGenderOnly(d) ==
    IF ~InStrings(DictGet(d, "gender_target"), VALID_GENDER)
    THEN DictSet(d, "gender_target", Null) ELSE d

\* if data.get(key) not in VALID: data[key] = None, for category and gender_target
GuardEnums(d) ==
    LET d1 == IF ~InStrings(DictGet(d, "category"), VALID_CATEGORY)
              THEN DictSet(d, "category", Null) ELSE d
    IN IF ~InStrings(DictGet(d1, "gender_target"), VALID_GENDER)
       THEN DictSet(d1, "gender_target", Null) ELSE d1

\* the timestamp datetime.utcnow().isoformat() gives
UtcNow == Str("utcnow")

\* what scrape(req) answers once scrape_product has returned data: item
\* assignment on None and the hash of a list or dict raise, and the caller
\* receives an error
ScrapeReply(data, u) ==
    IF data.t # "dict" THEN [status |-> "error", body |-> Null]
    ELSE LET d == DictSet(DictSet(data.v, "scraped_at", UtcNow),
                          "source_domain", Str(Hostname(u)))
         IN IF Unhashable(DictGet(d, "category")) \/ Unhashable(DictGet(d, "gender_target"))
            THEN [status |-> "error", body |-> Null]
            ELSE [status |-> "ok", body |-> Dict(GuardEnums(d))]

\* POST /scrape arrives: scrape_product(req.product_url) is called
Receive ==
    /\ pc = "request"
    /\ pc' = "with"
    /\ UNCHANGED <<url, page, playwright, browser, fields, brand, candidates, images, raw,
                   response, genCalls, cleaned, reply>>

\* the rest of scrape(req)
Respond ==
    /\ pc = "cleaned"
    /\ reply' = ScrapeReply(cleaned, url)
    /\ pc' = "done"
    /\ UNCHANGED <<url, page, playwright, browser, fields, brand, candidates, images, raw,
                   response, genCalls, cleaned>>

(***************************************************************************)
(* Inputs of clean_product_data: raw records and model responses           *)
(***************************************************************************)
\* longest style_tags list a response carries
MaxTags == 5

ProductUrl == "https://www.example.co.uk/p/air-max-90"

\* a record in which everything was scraped
BaseRaw ==
    [ raw_title       |-> Str("Air Max 90"),
      raw_brand       |-> Str("Nike"),
      raw_price       |-> Str(PoundSign \o "45.00"),
      raw_description |-> Str("Leather upper."),
      raw_images      |-> List(<< Str("https://cdn.example.co.uk/air-max-90-1.jpg"),
                                  Str("https://cdn.example.co.uk/air-max-90-2.jpg") >>),
      raw_sizes       |-> List(<< Str("M"), Str("S") >>),
      url             |-> Str(ProductUrl) ]

\* every field scraped or not
RawsGroundTruth ==
    [ raw_title       : {Null, Str(""), BaseRaw.raw_title},
      raw_brand       : {Str(""), BaseRaw.raw_brand},
      raw_price       : {Null, BaseRaw.raw_price},
      raw_description : {Null, BaseRaw.raw_description},
      raw_images      : {List(<<>>), BaseRaw.raw_images},
      raw_sizes       : {List(<<>>), BaseRaw.raw_sizes},
      url             : {Str(""), BaseRaw.url} ]

PriceInputs ==
    { Null, Str(""), Str("45.00"), Str(PoundSign \o "45.00"), Str("$60"),
      Str(EuroSign \o "50"), Str(PoundSign \o "45.00 / " \o EuroSign \o "50"),
      Str("US$60 (" \o PoundSign \o "45)") }

UrlInputs ==
    { "https://example.co.uk/p/1", "https://www.example.uk/p/1",
      "https://example.de/p/1", "https://www.example.fr/p/1",
      "https://example.es/p/1", "https://example.it/p/1",
      "https://example.com/p/1", "https://www.design.com/p/1",
      "https://example.nl/p/1", "https://shop.de.co.uk/p/1",
      "https://EXAMPLE.DE:8443/p/1", "example.de/p/1", "" }

\* price strings and hosts the currency is inferred from
RawsCurrency ==
    [ raw_title       : {BaseRaw.raw_title},
      raw_brand       : {BaseRaw.raw_brand},
      raw_price       : PriceInputs,
      raw_description : {Null},
      raw_images      : {List(<<>>)},
      raw_sizes       : {List(<<>>)},
      url             : {Str(u) : u \in UrlInputs} ]

RawInputs == RawsGroundTruth \cup RawsCurrency

\* what a model that ignores its instructions answers for every key
ModelSays ==
    [ product_name    |-> Str("Nike Air Max 90 Sneaker"),
      brand           |-> Str("NIKE Inc."),
      description     |-> Str("A classic sneaker."),
      price           |-> Str("45"),
      currency        |-> Str("USD"),
      category        |-> Str("footwear"),
      gender_target   |-> Str("unisex"),
      style_tags      |-> List(<< Str("#streetwear") >>),
      image_url       |-> Str("https://img.invalid/generated.jpg"),
      sizes_available |-> List(<< Str("L") >>),
      product_url     |-> Str("https://example.com/") ]

TruthKeys ==
    { "product_name", "brand", "description", "price", "image_url",
      "sizes_available", "product_url" }
EnrichKeys == { "currency", "category", "gender_target", "style_tags" }

Restrict(f, K) == [k \in K |-> f[k]]

\* the text of a response: bare, or wrapped in a Markdown code fence
Plain(body) == [before |-> "", body |-> body, after |-> ""]
Fenced(body) == [before |-> Fence \o "json\n", body |-> body, after |-> "\n" \o Fence \o "\n"]

\* the model keeps what is filled in and fills in the rest, as the prompt asks
Obedient(r) ==
    LET p == Product(r)
    IN Fenced(Dict([k \in DOMAIN p |->
            IF Truthy(p[k]) \/ k = "image_url" THEN p[k] ELSE ModelSays[k]]))

\* the model answers any subset of the scraped keys with values of its own
ResponsesGroundTruth ==
    { Plain(Dict(Restrict(ModelSays, K \cup EnrichKeys))) : K \in SUBSET TruthKeys }

CurrencyInputs == { Null, Str(""), Num(0), Str("USD"), Str("JPY") }

ResponsesCurrency ==
    { Plain(Dict(Restrict(ModelSays, EnrichKeys \ {"currency"}))) }
    \cup { Plain(Dict([Restrict(ModelSays, EnrichKeys) EXCEPT !["currency"] = c])) :
            c \in CurrencyInputs }

TagInputs ==
    { Str("#streetwear"), Str(" #StreetWear "), Str("#Y2K"), Str("#techwear"),
      Str("#skater"), Str("#minimalist"), Str("#grunge"), Num(7) }

TagLists == UNION { [1..n -> TagInputs] : n \in 0..MaxTags }

ResponsesTags ==
    { Plain(Dict([Restrict(ModelSays, EnrichKeys) EXCEPT !["style_tags"] = x])) :
        x \in {List(q) : q \in TagLists} \cup {Null, Str("#grunge")} }

\* text that is no JSON, JSON with prose around it, JSON that is no object
ResponsesBroken ==
    { Plain(Garbage), Fenced(Garbage),
      [before |-> "Here is the JSON:\n", body |-> Dict(ModelSays), after |-> ""],
      Plain(Null), Plain(Str("ok")), Plain(Num(42)), Plain(List(<< Dict(ModelSays) >>)) }

ResponsesFor(r) ==
    ResponsesBroken \cup {Obedient(r), Fenced(Dict(ModelSays))}
    \cup (IF r \in RawsGroundTruth THEN ResponsesGroundTruth ELSE {})
    \cup (IF r \in RawsCurrency THEN ResponsesCurrency ELSE {})
    \cup (IF r = BaseRaw THEN ResponsesTags ELSE {})

(***************************************************************************)
(* clean_product_data as steps: the call of the model, then the merge      *)
(***************************************************************************)
\* resp = client.models.generate_content(...): one call, whatever it answers
Generate(answers) ==
    /\ pc = "clean"
    /\ response' \in answers
    /\ genCalls' = genCalls + 1
    /\ pc' = "merge"
    /\ UNCHANGED <<url, page, playwright, browser, fields, brand, candidates, images,
                   raw, cleaned, reply>>

\* the rest of clean_product_data, and scrape_product returning its result
Merge ==
    /\ pc = "merge"
    /\ cleaned' = CleanProductData(raw, response)
    /\ pc' = "cleaned"
    /\ UNCHANGED <<url, page, playwright, browser, fields, brand, candidates, images,
                   raw, response, genCalls, reply>>

GenerateClean == Generate(ResponsesFor(raw))

InitClean ==
    /\ raw \in RawInputs
    /\ pc = "clean"
    /\ url = raw.url.v
    /\ page = Unset /\ fields = Unset
    /\ brand = Unset /\ candidates = Unset /\ images = Unset
    /\ playwright = "stopped" /\ browser = "none"
    /\ response = Unset /\ cleaned = Unset /\ reply = Unset
    /\ genCalls = 0

NextClean == GenerateClean \/ Merge

SpecClean == InitClean /\ [][NextClean]_vars

(***************************************************************************)
(* Inputs of detect_brand: URLs and JSON-LD blocks                         *)
(***************************************************************************)
\* longest first host segment generated
MaxLabelLen == 4

NoMatches == << Null, Null, Null, Null, Null, Null, Null, Null >>
EmptyHtml == [ld |-> <<>>, price_matches |-> NoMatches]
\* a page on which no selector matches anything
EmptyPage ==
    [ html       |-> EmptyHtml,
      title_els  |-> << Null, Null, Null, Null >>,
      price_els  |-> << Null, Null, Null >>,
      desc_els   |-> << Null, Null, Null >>,
      img_info   |-> <<>>,
      size_texts |-> <<>> ]

\* the letters of the fragments uk, us, eu, co, shop
LabelAlphabet == {"s", "h", "o", "p", "c", "u", "k", "e"}

RECURSIVE LabelsOfLen(_)
LabelsOfLen(n) ==
    IF n = 0 THEN {""} ELSE {a \o c : a \in LabelsOfLen(n - 1), c \in LabelAlphabet}

FirstSegments ==
    UNION {LabelsOfLen(n) : n \in 1..MaxLabelLen}
    \cup {"nike", "size", "my-shop", "houseoffraser", "h-m2"}

\* product URLs whose host starts with each of the segments, with and without www.
BrandUrls ==
    { "https://" \o w \o seg \o ".example.com/p/1" : w \in {"", "www."}, seg \in FirstSegments }

LdInputs ==
    { << Dict([brand |-> Str("Nike")]) >>,
      << Garbage, Dict([brand |-> Dict([name |-> Str(" Adidas ")])]) >>,
      << Dict([name |-> Str("Air Max 90")]), Dict([brand |-> Str("Puma")]) >>,
      << Dict([brand |-> Str("  ")]) >>,
      << Dict([brand |-> Str("")]) >>,
      << Dict([brand |-> Dict([id |-> Str("#brand")])]), Dict([brand |-> Str("Puma")]) >>,
      << Dict([brand |-> List(<< Str("Nike") >>)]) >>,
      << List(<< Str("x"), Dict([brand |-> Str("")]) >>), Dict([brand |-> Str("Puma")]) >>,
      << List(<< Dict([brand |-> Dict([name |-> Str("Asics")])]) >>) >> }

InitBrand ==
    /\ \/ url \in BrandUrls /\ page = EmptyPage
       \/ /\ url \in {ProductUrl, "https://shop.example.com/p/1"}
          /\ \E ld \in LdInputs : page = [EmptyPage EXCEPT !.html.ld = ld]
    /\ pc = "brand"
    /\ playwright = "running" /\ browser = "open"
    /\ fields = NoFields
    /\ brand = Unset /\ candidates = Unset /\ images = Unset
    /\ raw = Unset /\ response = Unset /\ cleaned = Unset /\ reply = Unset
    /\ genCalls = 0

SpecBrand == InitBrand /\ [][BrandStep]_vars

(***************************************************************************)
(* Inputs of extract_images_from_page: image signals                       *)
(***************************************************************************)
\* most gallery images on a page
MaxGallery == 11

Img(src, w, h, alt, cls, pic, top) ==
    [src |-> src, width |-> w, height |-> h, alt |-> alt, className |-> cls,
     inPicture |-> pic, top |-> top]

Cdn == "https://cdn.example.co.uk/"
HeroSrc == Cdn \o "hero.jpg"
TinySrc == Cdn \o "t.jpg"
\* a 900x900 image inside a picture with alt "product hero"
HeroImg == Img(HeroSrc, 900, 900, "product hero", "", TRUE, 100)
\* a 150x150 image with no hints
TinyImg == Img(TinySrc, 150, 150, "", "", FALSE, 5000)

\* the i-th image of a gallery: "gallery" images carry hints and sizes of every
\* tier, "thumbs" are small and carry none, "mixed" alternates the two
GalleryImg(i, kind) ==
    IF kind = "gallery" \/ (kind = "mixed" /\ i % 2 = 0)
    THEN Img(Cdn \o "gallery/" \o DigitsOf(i) \o ".jpg",
             200 * ((i % 5) + 1), 200 * ((i % 5) + 1),
             "Product image", "", i % 3 = 0, 400 * i)
    ELSE Img(Cdn \o "gallery/" \o DigitsOf(i) \o ".jpg",
             40 * ((i % 4) + 1), 40 * ((i % 4) + 1), "", "", FALSE, 5000 + i)

Gallery(k, kind) == [i \in 1..k |-> GalleryImg(i, kind)]

\* elements that stand before or behind the gallery
EdgeImgs ==
    { HeroImg, TinyImg,
      Img(Cdn \o "LOGO.png", 900, 900, "product", "", TRUE, 0),
      Img("//cdn.example.co.uk/paypal-badge.png", 60, 40, "", "", FALSE, 6000),
      Img(Cdn \o "Hand-Bag.JPG", 50, 50, "", "", FALSE, 7000),
      Img("//cdn.example.co.uk/hero.jpg", 10, 10, "", "", FALSE, 9000),
      Img("//cdn.example.co.uk/gallery/1.jpg", 900, 900, "hero", "main", TRUE, 0),
      Img("/static/shoe.jpg", 900, 900, "shoe", "", FALSE, 0),
      Img("data:image/png;base64,AAAA", 900, 900, "", "", FALSE, 0),
      Img("", 900, 900, "", "", FALSE, 0),
      Img(Cdn \o "app.js", 900, 900, "", "", FALSE, 9000),
      Img(Cdn \o "asset/12345", 120, 120, "", "", FALSE, 9000),
      Img(Cdn \o "Air-Max-90.webp", 100, 100, "", "", FALSE, 3000) }

\* what stands before the gallery: nothing or any one of the elements
Heads == {<<>>} \cup {<<e>> : e \in EdgeImgs}
\* what stands behind it: nothing, the two images of the example, or an element
\* whose URL occurred before
Tails ==
    {<<>>}
    \cup {<<e>> : e \in {x \in EdgeImgs :
                x.src \in { HeroSrc, TinySrc, "//cdn.example.co.uk/hero.jpg",
                            "//cdn.example.co.uk/gallery/1.jpg",
                            Cdn \o "Air-Max-90.webp" }}}

ImgInfoInputs ==
    { head \o Gallery(k, kind) \o tail :
        head \in Heads, tail \in Tails, k \in 0..MaxGallery,
        kind \in {"gallery", "thumbs", "mixed"} }

InitImages ==
    /\ \E info \in ImgInfoInputs : page = [EmptyPage EXCEPT !.img_info = info]
    /\ url = ProductUrl
    /\ pc = "images"
    /\ playwright = "running" /\ browser = "open"
    /\ fields = [NoFields EXCEPT !.title = Str("Air Max 90")]
    /\ brand = Str("Nike") /\ candidates = Unset /\ images = Unset
    /\ raw = Unset /\ response = Unset /\ cleaned = Unset /\ reply = Unset
    /\ genCalls = 0

SpecImages == InitImages /\ [][ImagesStep]_vars

(***************************************************************************)
(* A request to /scrape from end to end                                    *)
(***************************************************************************)
\* a product page on which everything is found
FullPage ==
    [ html       |-> [ ld |-> << Dict([brand |-> Dict([name |-> Str("Nike")]),
                                       offers |-> Dict([price |-> Num(45)])]) >>,
                       price_matches |-> [NoMatches EXCEPT ![3] = Str("45.00")] ],
      title_els  |-> << Str(" Air Max 90\n"), Null, Str("Air Max"), Null >>,
      price_els  |-> << Null, Str(PoundSign \o "45.00 "), Null >>,
      desc_els   |-> << Null, Str("Leather upper."), Null >>,
      img_info   |-> << TinyImg, Img(Cdn \o "LOGO.png", 900, 900, "", "", FALSE, 0), HeroImg >>,
      size_texts |-> << "s", "M ", "29", "junk" >> ]

\* the same page with its price only in the scripts
ScriptPricePage == [FullPage EXCEPT !.price_els = << Null, Null, Null >>, !.title_els[1] = Null]

\* a page whose JSON-LD brand is a list: detect_brand calls .strip() on it
ListBrandPage == [FullPage EXCEPT !.html.ld = << Dict([brand |-> List(<< Str("Nike") >>)]) >>]

Pages == {FullPage, ScriptPricePage, EmptyPage, ListBrandPage}

PipelineUrls == {ProductUrl, "https://shop.example.com/p/1", "https://www.design.com/p/1"}

CategoryInputs ==
    { Str("footwear"), Str("top"), Str("Footwear"), Str("shoes"), Str(""), Null,
      Num(3), List(<< Str("top") >>) }
GenderInputs ==
    { Str("unisex"), Str("feminine"), Str("male"), Str("Unisex "), Null,
      Dict([value |-> Str("unisex")]) }

\* the model answers category and gender_target with anything at all
ResponsesEnums ==
    { Plain(Dict(Restrict(ModelSays, TruthKeys \cup {"currency", "style_tags"}))) }
    \cup { Plain(Dict([ModelSays EXCEPT !["category"] = c, !["gender_target"] = g])) :
            c \in CategoryInputs, g \in GenderInputs }

GeneratePipeline == Generate(ResponsesBroken \cup {Obedient(raw)} \cup ResponsesEnums)

Init ==
    /\ url \in PipelineUrls
    /\ page \in Pages
    /\ pc = "request"
    /\ playwright = "stopped" /\ browser = "none"
    /\ fields = Unset
    /\ brand = Unset /\ candidates = Unset /\ images = Unset
    /\ raw = Unset /\ response = Unset /\ cleaned = Unset
    /\ reply = [status |-> "none", body |-> Null]
    /\ genCalls = 0

Next ==
    \/ Receive \/ EnterWith \/ Launch \/ NewPage \/ GotoAndScroll \/ ContentAndTitle
    \/ BrandStep \/ PriceAndDescription \/ ImagesStep \/ SizesStep \/ CloseBrowser
    \/ ExitWith \/ BrowserCallRaises \/ Unwind
    \/ GeneratePipeline \/ Merge \/ Respond

Spec == Init /\ [][Next]_vars

(***************************************************************************)
(* Properties of clean_product_data (checked under SpecClean)              *)
(***************************************************************************)
Returned == pc = "cleaned" /\ cleaned.t = "dict"
ResponseDict == response.body.t = "dict"

\* C1. Ground-truth precedence: whenever clean_product_data returns a record,
\* each of raw_title, raw_brand, raw_price, url, the first element of raw_images
\* and raw_sizes that is non-empty in the raw record is the returned
\* product_name, brand, price, product_url, image_url and sizes_available,
\* whatever the response of the model holds for it.
GroundTruthPrecedence ==
    Returned =>
        /\ Truthy(raw.raw_title) => DictGet(cleaned.v, "product_name") = raw.raw_title
        /\ Truthy(raw.raw_brand) => DictGet(cleaned.v, "brand") = raw.raw_brand
        /\ Truthy(raw.raw_price) => DictGet(cleaned.v, "price") = raw.raw_price
        /\ Truthy(raw.url) => DictGet(cleaned.v, "product_url") = raw.url
        /\ Truthy(raw.raw_images) => DictGet(cleaned.v, "image_url") = raw.raw_images.v[1]
        /\ Truthy(raw.raw_sizes) => DictGet(cleaned.v, "sizes_available") = raw.raw_sizes

\* C1 witness: all six fields were scraped, the model answered each of them with
\* a different value, and the record returned carries the scraped price.
GroundTruthOverwritesModel ==
    /\ Returned
    /\ \A k \in {"raw_title", "raw_brand", "raw_price", "url", "raw_images", "raw_sizes"} :
            Truthy(raw[k])
    /\ ResponseDict
    /\ \A k \in TruthKeys : k \in DOMAIN response.body.v
    /\ response.body.v["price"] # raw.raw_price
    /\ response.body.v["product_name"] # raw.raw_title
    /\ response.body.v["image_url"] # raw.raw_images.v[1]
    /\ cleaned.v["price"] = raw.raw_price

\* C2. Every field populated in the raw record, the description included, is the
\* corresponding field of the returned record: a non-empty raw_description is
\* never replaced by the description of the model.
RawFieldsNeverRewritten ==
    Returned =>
        /\ Truthy(raw.raw_title) => DictGet(cleaned.v, "product_name") = raw.raw_title
        /\ Truthy(raw.raw_brand) => DictGet(cleaned.v, "brand") = raw.raw_brand
        /\ Truthy(raw.raw_price) => DictGet(cleaned.v, "price") = raw.raw_price
        /\ Truthy(raw.raw_description) =>
                DictGet(cleaned.v, "description") = raw.raw_description
        /\ Truthy(raw.url) => DictGet(cleaned.v, "product_url") = raw.url
        /\ Truthy(raw.raw_images) => DictGet(cleaned.v, "image_url") = raw.raw_images.v[1]
        /\ Truthy(raw.raw_sizes) => DictGet(cleaned.v, "sizes_available") = raw.raw_sizes

IsAllowedTag(x) ==
    x.t = "str" /\ \E i \in 1..Len(ALLOWED_STYLE_TAGS) : x.v = ALLOWED_STYLE_TAGS[i]

\* the first place in the tags of the model where a tag matching x stands
FirstSeen(tags, x) ==
    CHOOSE i \in 1..Len(tags) :
        /\ tags[i].t = "str" /\ Lower(Strip(tags[i].v)) = Lower(x.v)
        /\ \A j \in 1..(i - 1) : ~(tags[j].t = "str" /\ Lower(Strip(tags[j].v)) = Lower(x.v))

\* C4. Style tag vocabulary closure: in every record returned, style_tags is a
\* list whose elements all belong to ALLOWED_STYLE_TAGS, no two elements are
\* equal case-insensitively, the elements stand in the first-seen order of the
\* tags of the model, and there are at most 4 of them.
StyleTagsClosed ==
    (Returned /\ ResponseDict) =>
        LET out == DictGet(cleaned.v, "style_tags")
            given == DictGet(response.body.v, "style_tags")
        IN /\ out.t = "list"
           /\ \A i \in 1..Len(out.v) : IsAllowedTag(out.v[i])
           /\ \A i, j \in 1..Len(out.v) : i # j => Lower(out.v[i].v) # Lower(out.v[j].v)
           /\ given.t = "list" =>
                \A i, j \in 1..Len(out.v) :
                    i < j => FirstSeen(given.v, out.v[i]) < FirstSeen(given.v, out.v[j])
           /\ Len(out.v) <= 4

\* the last dot-delimited label of a host: its top-level domain
TopLevelDomain(host) == SplitLast(host, ".")
\* a host under the country code of one of the EU countries the code names
IsEuCountryCodeHost(host) == TopLevelDomain(host) \in {"de", "fr", "es", "it"}

\* the currency the claim gives a raw price string and a host
ClaimedCurrency(price_str, host) ==
    IF Contains(price_str, EuroSign) THEN "EUR"
    ELSE IF Contains(price_str, DollarSign) THEN "USD"
    ELSE IF Contains(price_str, PoundSign) THEN "GBP"
    ELSE IF IsEuCountryCodeHost(host) THEN "EUR"
    ELSE "GBP"

\* C8. Currency resolution: when the response leaves currency empty, the
\* returned currency is the one of the first symbol of the raw price in the
\* order euro, dollar, pound, else EUR for an EU country-code host and GBP
\* otherwise; the returned currency is never empty; a raw price of 45.00 pounds
\* at example.co.uk gives GBP.
CurrencyResolved ==
    (Returned /\ ResponseDict) =>
        /\ Truthy(DictGet(cleaned.v, "currency"))
        /\ ~Truthy(DictGet(response.body.v, "currency")) =>
                DictGet(cleaned.v, "currency") =
                    Str(ClaimedCurrency(Or(raw.raw_price, Str("")).v, Hostname(raw.url.v)))
        /\ ( /\ ~Truthy(DictGet(response.body.v, "currency"))
             /\ raw.raw_price = Str(PoundSign \o "45.00")
             /\ Hostname(raw.url.v) = "example.co.uk" ) =>
                DictGet(cleaned.v, "currency") = Str("GBP")

(***************************************************************************)
(* Properties of the /scrape endpoint (checked under Spec)                 *)
(***************************************************************************)
Answered == pc = "done" /\ reply.status = "ok"

\* C3. Enum enforcement: in every response the endpoint returns, category is one
\* of top, bottom, outerwear, footwear, full_body, accessory or is null, and
\* gender_target is one of masculine, feminine, unisex or is null, whatever the
\* model answered.
EnumsEnforced ==
    Answered =>
        LET category == DictGet(reply.body.v, "category")
            gender_target == DictGet(reply.body.v, "gender_target")
        IN /\ \/ category = Null
              \/ /\ category.t = "str"
                 /\ category.v \in {"top", "bottom", "outerwear", "footwear",
                                    "full_body", "accessory"}
           /\ \/ gender_target = Null
              \/ /\ gender_target.t = "str"
                 /\ gender_target.v \in {"masculine", "feminine", "unisex"}

\* C3 witness: the model answered the category "shoes" and the gender "male",
\* and the response of the endpoint carries null for both.
EnumsClearedInReply ==
    /\ Answered
    /\ response.body.t = "dict"
    /\ DictGet(response.body.v, "category") = Str("shoes")
    /\ DictGet(response.body.v, "gender_target") = Str("male")
    /\ DictGet(reply.body.v, "category") = Null
    /\ DictGet(reply.body.v, "gender_target") = Null

\* the text of the response is not parseable JSON once the fences are stripped
Unparseable ==
    \/ response.body = Garbage
    \/ StripFences(response.before) # ""
    \/ StripFences(response.after) # ""

\* C5. Enrichment parse failure: the model is called once per request and never
\* again; when its response is not parseable JSON, no cleaned record is produced,
\* no default record stands in for it, and the caller receives an error and no
\* product record.
SingleAttemptNoDefault ==
    /\ genCalls <= 1
    /\ pc \in {"merge", "cleaned"} => genCalls = 1
    /\ (pc = "done" /\ raw # Unset) => genCalls = 1
    /\ (response # Unset /\ Unparseable) =>
            /\ cleaned \in {Unset, Null}
            /\ pc = "done" => (reply.status = "error" /\ reply.body = Null)

\* C5 witness: the model was called once, answered with prose around its JSON,
\* and the request ended in an error without a record.
ParseFailureFailsRequest ==
    /\ pc = "done"
    /\ genCalls = 1
    /\ response # Unset
    /\ response.body.t = "dict" /\ response.before # ""
    /\ Unparseable
    /\ cleaned = Null
    /\ reply.status = "error"

BrandNeverEmpty ==
    pc # "brand" => (brand.t = "str" /\ brand.v # "")

(***************************************************************************)
(* Properties of extract_images_from_page (checked under SpecImages)       *)
(***************************************************************************)
ImagesReturned == pc = "sizes"

\* the place of a candidate URL among the elements of the page
FirstInPage(src) ==
    CHOOSE i \in 1..Len(page.img_info) :
        /\ NormaliseSrc(page.img_info[i].src) = src
        /\ \A j \in 1..(i - 1) : NormaliseSrc(page.img_info[j].src) # src

Smaller(a, b) == IF a < b THEN a ELSE b

NoBlocklistedImage ==
    ImagesReturned =>
        /\ \A i \in 1..Len(images) :
                LET lowered == Lower(images[i])
                IN \A b \in IMAGE_BLOCKLIST : ~Contains(lowered, b)
        /\ \A i, j \in 1..Len(images) : i # j => images[i] # images[j]

\* C10 witness: the page shows LOGO.png in capitals and one gallery image twice,
\* no candidate scores positive, and the fallback branch returns URLs.
FallbackWithoutLogo ==
    /\ ImagesReturned
    /\ \E i \in 1..Len(page.img_info) : page.img_info[i].src = Cdn \o "LOGO.png"
    /\ \E i, j \in 1..Len(page.img_info) :
            i # j /\ NormaliseSrc(page.img_info[i].src) = NormaliseSrc(page.img_info[j].src)
    /\ \A i \in 1..Len(candidates) : candidates[i].score = 0
    /\ Len(images) = 5

(***************************************************************************)
(* The size loops on their own, and run again on what they collected       *)
(***************************************************************************)
\* most texts the size loops read on a page
MaxSizeTexts == 3

SizeTextInputs ==
    { "s", "M ", "29", "junk", " xl", "X L", "one  size", "\tm\n", "l/xl", "3XL",
      "19", "20", "60", "61", "2 9", " " }

\* the texts of the example
ExampleSizeTexts == << "s", "M ", "29", "junk" >>

InitSizes ==
    /\ \E texts \in UNION {[1..n -> SizeTextInputs] : n \in 0..MaxSizeTexts}
                    \cup {ExampleSizeTexts} :
            page = [EmptyPage EXCEPT !.size_texts = texts]
    /\ url = ProductUrl
    /\ pc = "sizes"
    /\ playwright = "running" /\ browser = "open"
    /\ fields = NoFields
    /\ brand = Str("Nike") /\ candidates = <<>> /\ images = <<>>
    /\ raw = Unset /\ response = Unset /\ cleaned = Unset /\ reply = Unset
    /\ genCalls = 0

\* the size loops run on a page that shows exactly the sizes collected before
SizesAgain ==
    /\ pc = "close"
    /\ page' = [page EXCEPT !.size_texts = [i \in 1..Len(fields.sizes.v) |-> fields.sizes.v[i].v]]
    /\ fields' = [fields EXCEPT !.sizes = CollectSizes(page')]
    /\ pc' = "again"
    /\ UNCHANGED <<url, playwright, browser, brand, candidates, images, raw, response,
                   genCalls, cleaned, reply>>

NextSizes == SizesStep \/ SizesAgain

SpecSizes == InitSizes /\ [][NextSizes]_vars

(***************************************************************************)
(* Properties of the size collection (checked under SpecSizes)             *)
(***************************************************************************)
\* the two-digit strings of the numbers 20 to 60
WaistSizes == {DigitsOf(n) : n \in 20..60}

\* a trimmed, uppercased token the claim accepts: a size word, a text that is a
\* size word once its spaces are removed, or two digits worth 20 to 60
AcceptedForm(u) ==
    /\ u # ""
    /\ \/ u \in VALID_SIZE_WORDS
       \/ Replace(u, " ", "") \in VALID_SIZE_WORDS
       \/ u \in WaistSizes

\* C11. Size normalization idempotence: the sizes collected are exactly the
\* trimmed, uppercased forms of the accepted tokens, without duplicates and in
\* sorted order; every collected size is itself accepted and is its own
\* trimmed, uppercased form, so collecting sizes again from the collected sizes
\* gives the same sizes; the tokens "s", "M ", "29", "junk" give 29, M, S.
SizesNormalisedOnce ==
    LET out == fields.sizes.v
    IN /\ pc = "close" =>
            /\ {out[i].v : i \in 1..Len(out)} =
                    { Upper(Strip(page.size_texts[i])) :
                        i \in {j \in 1..Len(page.size_texts) :
                                    AcceptedForm(Upper(Strip(page.size_texts[j])))} }
            /\ \A i \in 1..(Len(out) - 1) : StrLess(out[i].v, out[i + 1].v)
            /\ \A i \in 1..Len(out) :
                    /\ out[i].t = "str"
                    /\ AcceptedForm(out[i].v)
                    /\ Upper(Strip(out[i].v)) = out[i].v
            /\ page.size_texts = ExampleSizeTexts =>
                    out = << Str("29"), Str("M"), Str("S") >>
       /\ pc = "again" => out = [i \in 1..Len(page.size_texts) |-> Str(page.size_texts[i])]

\* C11 witness: the tokens of the example were read and 29, M, S collected.
ExampleSizesCollected ==
    /\ pc = "close"
    /\ page.size_texts = ExampleSizeTexts
    /\ fields.sizes = List(<< Str("29"), Str("M"), Str("S") >>)

(***************************************************************************)
(* The price step on its own                                               *)
(*                                                                         *)
(* The patterns are searched in the whole markup, JSON-LD scripts          *)
(* included: a block that writes "price": "45.00" is matched by the first  *)
(* pattern, so a quoted, non-empty price in a block comes with a match of  *)
(* that pattern.                                                           *)
(***************************************************************************)
\* most patterns that match on one page
MaxMatches == 2

\* what each pattern captures when it matches
PatternSamples ==
    << "45.00", "45.50", "39.99", "35.00", "12.00", "40.00", "50.00", "$45.00" >>

MatchInputs ==
    { [i \in 1..8 |-> IF i \in P THEN Str(PatternSamples[i]) ELSE Null] :
        P \in {Q \in SUBSET (1..8) : Cardinality(Q) <= MaxMatches} }

\* the inner text of the element each price selector matches
PriceElsInputs ==
    { << Null, Null, Null >>,
      << Null, Str(" " \o PoundSign \o "45.00 "), Str("$60") >>,
      << Null, Null, Str("12.50") >>,
      << Str(""), Null, Str("9") >>,
      << Str(" \n"), Null, Null >> }

Offer(price) == Dict([price |-> price])

\* JSON-LD blocks whose prices are numbers, null or empty
LdUnquotedInputs ==
    { <<>>,
      << Dict([offers |-> Offer(Num(45))]) >>,
      << Dict([offers |-> List(<< Offer(Num(45)) >>)]) >>,
      << Dict([offers |-> List(<< Dict([availability |-> Str("InStock")]), Offer(Num(30)) >>)]) >>,
      << Dict([offers |-> Offer(Null)]) >>,
      << Dict([offers |-> Offer(Str(""))]), Dict([offers |-> Offer(Num(20))]) >>,
      << Dict([offers |-> Offer(Num(0))]) >>,
      << Garbage, Dict([name |-> Str("Air Max 90")]), Dict([offers |-> Offer(Num(45))]) >>,
      << List(<< Str("x"), Dict([name |-> Str("Air Max 90")]),
                 Dict([offers |-> Offer(Num(15))]), Dict([offers |-> Offer(Num(16))]) >>) >>,
      << List(<< Dict([offers |-> Str("none")]) >>), Dict([offers |-> Offer(Num(45))]) >>,
      << Dict([offers |-> Dict([lowPrice |-> Num(10)])]) >>,
      << Num(7), Str("text"), Null >> }

\* blocks with a quoted price, which the first pattern matches too
LdQuotedInputs ==
    { << Dict([offers |-> Offer(Str("45.00"))]) >>,
      << List(<< Dict([offers |-> List(<< Offer(Str("45.00")) >>)]) >>) >> }

InitPrice ==
    /\ \E els \in PriceElsInputs, m \in MatchInputs, ld \in LdUnquotedInputs \cup LdQuotedInputs :
            /\ ld \in LdQuotedInputs => m[1] = Str("45.00")
            /\ page = [EmptyPage EXCEPT !.price_els = els, !.html = [ld |-> ld, price_matches |-> m]]
    /\ url = ProductUrl
    /\ pc = "price"
    /\ playwright = "running" /\ browser = "open"
    /\ fields = [NoFields EXCEPT !.title = Str("Air Max 90")]
    /\ brand = Str("Nike") /\ candidates = Unset /\ images = Unset
    /\ raw = Unset /\ response = Unset /\ cleaned = Unset /\ reply = Unset
    /\ genCalls = 0

SpecPrice == InitPrice /\ [][PriceAndDescription]_vars

(***************************************************************************)
(* Properties of the price step (checked under SpecPrice)                  *)
(***************************************************************************)
\* the first entry of q that is present, None when there is none
FirstFound(q) ==
    IF \E j \in 1..Len(q) : q[j] # Null
    THEN q[CHOOSE j \in 1..Len(q) : q[j] # Null /\ \A k \in 1..(j - 1) : q[k] = Null]
    ELSE Null

\* the price of one offer, when it carries one
OfferPrice(o) ==
    IF o.t = "dict" /\ DictGet(o.v, "price") \notin {Null, Str("")}
    THEN Str(PyStr(DictGet(o.v, "price")))
    ELSE Null

\* offers.price of an object whose offers is an object or an array of objects
OffersPrice(obj) ==
    IF obj.t # "dict" THEN Null
    ELSE LET offers == DictGet(obj.v, "offers")
         IN IF offers.t = "list"
            THEN FirstFound([j \in 1..Len(offers.v) |-> OfferPrice(offers.v[j])])
            ELSE OfferPrice(offers)

\* the first offers.price of a structured-data block
BlockOffersPrice(data) ==
    IF data.t = "list"
    THEN FirstFound([j \in 1..Len(data.v) |-> OffersPrice(data.v[j])])
    ELSE OffersPrice(data)

\* the raw price the claim gives a page
ClaimedPrice(dom) ==
    LET el == FirstFound(dom.price_els)
        match == FirstFound(dom.html.price_matches)
    IN IF el # Null THEN Str(Strip(el.v))
       ELSE IF match # Null THEN match
       ELSE FirstFound([i \in 1..Len(dom.html.ld) |-> BlockOffersPrice(dom.html.ld[i])])

\* C12. Price source priority: the raw price is the trimmed text of the first
\* matched price selector when an element matches; otherwise the first match
\* of the script patterns in list order; otherwise the first offers.price of a
\* structured-data block, offers being an object or an array of objects;
\* otherwise it is absent; and no step raises.
PriceSourcePriority ==
    pc = "images" =>
        /\ fields.price.t \in {"null", "str"}
        /\ fields.price = ClaimedPrice(page)

====
